---- MODULE Spec2Model ----
(***************************************************************************)
(* Model of Xhpc's scratch-relocation planner (Xhpc/relocate.py).          *)
(*                                                                         *)
(* Python strings are sequences of one-character strings, so that `in`     *)
(* (substring), sorted() (code-point order) and os.path.dirname are        *)
(* computed character by character.  A command line is a sequence of       *)
(* pieces: the literal text of a format string and the characters of the   *)
(* paths substituted into it; a "/" is always a piece of its own.          *)
(***************************************************************************)
EXTENDS Integers, Sequences, FiniteSets, TLC

VARIABLES
    args,       \* the shared `args` dictionary threaded through every function
    fs,         \* the filesystem: path -> "file" | "dir" (absent: no such path)
    cwd,        \* the process's current working directory
    in_out,     \* classification {'files','folders','out'} last computed/passed
    included,   \* the `included` set last computed/passed
    min_arg,    \* the `min_folders` argument handed to get_min_files
    min_paths,  \* the {'folders','files'} result last computed
    ret,        \* return value of the last call
    last,       \* name of the last function called ("none" before any call)
    calls,      \* number of calls made on this args dictionary
    script,     \* lines of the job file at args['job_fp'], <<>> before it exists
    effects     \* what the last call did outside the dictionary, in order

vars ==
    <<args, fs, cwd, in_out, included, min_arg, min_paths, ret, last, calls,
      script, effects>>

----------------------------------------------------------------------------
(* Bounds of the model *)

\* deepest path built from Names that the reducer is tried on
MaxDepth == 2

\* most calls made in a row on one args dictionary by the unit-level callers
MaxCalls == 2

\* directory / file names that paths are built from
Names == {"a", "b"}

\* most nodes and most processors requested
MaxNodes == 4
MaxCpus == 12

----------------------------------------------------------------------------
(* Python strings *)

\* code point of a character: str comparison in sorted() goes by code point
Ord(c) ==
    CASE c = "." -> 46
      [] c = "/" -> 47
      [] c = "1" -> 49
      [] c = "2" -> 50
      [] c = "3" -> 51
      [] c = "4" -> 52
      [] c = "5" -> 53
      [] c = "a" -> 97
      [] c = "b" -> 98
      [] c = "c" -> 99
      [] c = "d" -> 100
      [] c = "e" -> 101
      [] c = "t" -> 116
      [] c = "x" -> 120

\* a < b for two Python strings: first differing character decides, a proper
\* prefix sorts first
StrLess(a, b) ==
    \E i \in 1..(Len(b)) :
        /\ \A k \in 1..(i - 1) : k <= Len(a) /\ a[k] = b[k]
        /\ i - 1 <= Len(a)
        /\ \/ Len(a) = i - 1
           \/ Len(a) >= i /\ Ord(a[i]) < Ord(b[i])

\* Python `a in b` for two strings: a occurs in b as a contiguous substring
IsSubstr(a, b) ==
    \E i \in 0..(Len(b) - Len(a)) : SubSeq(b, i + 1, i + Len(a)) = a

\* a is a prefix of b (str.startswith); used by the properties only
IsPrefix(a, b) ==
    Len(a) <= Len(b) /\ SubSeq(b, 1, Len(a)) = a

\* index of the last "/" of p, 0 when there is none (str.rfind('/') + 1)
RFindSlash(p) ==
    IF \E i \in 1..Len(p) : p[i] = "/"
    THEN CHOOSE i \in 1..Len(p) :
            p[i] = "/" /\ \A j \in (i + 1)..Len(p) : p[j] # "/"
    ELSE 0

RECURSIVE RStripSlash(_)
\* str.rstrip('/')
RStripSlash(s) ==
    IF s # <<>> /\ s[Len(s)] = "/" THEN RStripSlash(SubSeq(s, 1, Len(s) - 1))
    ELSE s

\* posixpath.dirname: everything before the last "/", trailing slashes
\* stripped unless the head is made of slashes only
dirname(p) ==
    LET head == SubSeq(p, 1, RFindSlash(p))
    IN  IF head # <<>> /\ (\E i \in 1..Len(head) : head[i] # "/")
        THEN RStripSlash(head)
        ELSE head

----------------------------------------------------------------------------
(* Path universes *)

RECURSIVE PathsOfDepth(_)
\* absolute paths of exactly n components taken from Names
PathsOfDepth(n) ==
    IF n = 0 THEN {<<>>}
    ELSE {p \o <<"/", c>> : p \in PathsOfDepth(n - 1), c \in Names}

\* the root and every absolute path of 1..MaxDepth components
Paths == {<<"/">>} \cup UNION {PathsOfDepth(n) : n \in 1..MaxDepth}

\* sets of at most one, two, three paths
AtMost1 == {{}} \cup {{p} : p \in Paths}
AtMost2 == {{}} \cup {{p, q} : p \in Paths, q \in Paths}
AtMost3 == {{}} \cup {{p, q, r} : p \in Paths, q \in Paths, r \in Paths}

\* the directories of test_get_min_folders
TestFolders ==
    { <<"/","a","/","b","/","c","/","d","/","e">>,
      <<"/","a","/","b","/","c","/","d">>,
      <<"/","a","/","b","/","c">>,
      <<"/","1","/","2","/","3","/","4","/","5">>,
      <<"/","1">> }

\* the files and minimal folders of test_get_min_files
TestFiles ==
    { <<"/","a","/","b","/","c","/","d","/","e",".","t","x","t">>,
      <<"/","a","/","b","/","c","/","d",".","t","x","t">>,
      <<"/","a","/","b","/","c",".","t","x","t">>,
      <<"/","1","/","2",".","t","x","t">>,
      <<"/","1",".","t","x","t">> }

TestMinFolders == { <<"/","a","/","b","/","c">>, <<"/","1">> }

----------------------------------------------------------------------------
(* The minimal-cover reducer *)

RECURSIVE sorted_desc(_)
\* mutant of sorted: descending order
sorted_desc(S) ==
    IF S = {} THEN <<>>
    ELSE LET m == CHOOSE x \in S : \A y \in S \ {x} : StrLess(y, x)
         IN  <<m>> \o sorted_desc(S \ {m})

RECURSIVE sorted(_)
\* sorted(folders): the elements of the set in ascending str order
sorted(S) ==
    IF S = {} THEN <<>>
    ELSE LET m == CHOOSE x \in S : \A y \in S \ {x} : StrLess(x, y)
         IN  <<m>> \o sorted(S \ {m})

\* mutant of combinations2: neighbouring elements only, as zip(s, s[1:])
combinations2_adjacent(seq) ==
    {<<seq[i], seq[i + 1]>> : i \in 1..(Len(seq) - 1)}

\* itertools.combinations(seq, 2): the pairs (seq[i], seq[j]) with i < j
combinations2(seq) ==
    {<<seq[ij[1]], seq[ij[2]]>> :
        ij \in {q \in (1..Len(seq)) \X (1..Len(seq)) : q[1] < q[2]}}

\* mutant of pair_exclude: the containing pair loses its first, shorter path
pair_exclude_first(folders) ==
    {c[1] : c \in {d \in combinations2(sorted(folders)) :
                        d[1] # d[2] /\ IsSubstr(d[1], d[2])}}

\* mutant of pair_exclude: both paths of a containing pair are excluded
pair_exclude_both(folders) ==
    UNION {{c[1], c[2]} : c \in {d \in combinations2(sorted(folders)) :
                        d[1] # d[2] /\ IsSubstr(d[1], d[2])}}

\* first loop of get_min_folders: the second of every sorted pair whose first
\* is a different string contained in it
pair_exclude(folders) ==
    {c[2] : c \in {d \in combinations2(sorted(folders)) :
                        d[1] # d[2] /\ IsSubstr(d[1], d[2])}}

\* mutant of include_exclude: a folder equal to an include is kept
include_exclude_strict(folders, incl) ==
    {f1 \in folders : \E f2 \in incl : f2 # f1 /\ IsSubstr(f2, f1)}

\* second loop of get_min_folders: every folder containing an include path
include_exclude(folders, incl) ==
    {f1 \in folders : \E f2 \in incl : IsSubstr(f2, f1)}

\* get_min_folders(folders, included)
get_min_folders(folders, incl) ==
    folders \ (pair_exclude(folders) \cup include_exclude(folders, incl))

RECURSIVE covered_by(_, _)
\* inner for-loop of get_min_files: TRUE when the loop breaks, that is when
\* some folder of the set occurs in dirname(f1)
covered_by(f1, folders) ==
    IF folders = {} THEN FALSE
    ELSE LET f2 == CHOOSE x \in folders : TRUE
         IN  IF IsSubstr(f2, dirname(f1)) THEN TRUE
             ELSE covered_by(f1, folders \ {f2})

RECURSIVE get_min_files_full_path(_, _)
\* mutant of get_min_files: the folder is looked for in the file path itself
get_min_files_full_path(files, min_folders) ==
    IF files = {} THEN {}
    ELSE LET f1 == CHOOSE x \in files : TRUE
             rest == get_min_files_full_path(files \ {f1}, min_folders)
         IN  IF \E f2 \in min_folders : IsSubstr(f2, f1) THEN rest
             ELSE rest \cup {f1}

RECURSIVE get_min_files(_, _)
\* get_min_files(files, min_folders): outer for-loop with its for/else
get_min_files(files, min_folders) ==
    IF files = {} THEN {}
    ELSE LET f1 == CHOOSE x \in files : TRUE
             rest == get_min_files(files \ {f1}, min_folders)
         IN  IF covered_by(f1, min_folders) THEN rest
             ELSE rest \cup {f1}

\* mutant of get_min_paths: the include overrides are not handed on to
\* get_min_folders
get_min_paths_no_override(io, incl) ==
    CHOOSE r \in { [folders |-> min_folders,
                    files |-> get_min_files(io.files, min_folders)] :
                    min_folders \in {get_min_folders(io.folders, {})} } :
        TRUE

\* get_min_paths(in_out, included)
get_min_paths(io, incl) ==
    CHOOSE r \in { [folders |-> min_folders,
                    files |-> get_min_files(io.files, min_folders)] :
                    min_folders \in {get_min_folders(io.folders, incl)} } :
        TRUE

----------------------------------------------------------------------------
(* Python values held by the args dictionary and returned by the functions *)

PyNone == [t |-> "None"]
PyBool(b) == [t |-> "bool", b |-> b]
PyStr(s) == [t |-> "str", s |-> s]
PyTuple(q) == [t |-> "tuple", q |-> q]
PySet(S) == [t |-> "set", v |-> S]
PyDict(d) == [t |-> "dict", d |-> d]
PyRaise(e) == [t |-> "raise", e |-> e]

\* truth value of a Python object in `if obj:`
Truthy(v) ==
    CASE v.t = "None" -> FALSE
      [] v.t = "bool" -> v.b
      [] v.t = "str" -> v.s # <<>>
      [] v.t = "tuple" -> v.q # <<>>

\* '%s' % v
Str(v) ==
    CASE v.t = "None" -> <<"None">>
      [] v.t = "bool" -> IF v.b THEN <<"True">> ELSE <<"False">>
      [] v.t = "str" -> v.s

----------------------------------------------------------------------------
(* Filesystem probes *)

RECURSIVE split_slash(_)
\* str.split('/')
split_slash(p) ==
    IF \E i \in 1..Len(p) : p[i] = "/"
    THEN LET i == CHOOSE k \in 1..Len(p) :
                    p[k] = "/" /\ \A j \in 1..(k - 1) : p[j] # "/"
         IN  <<SubSeq(p, 1, i - 1)>> \o split_slash(SubSeq(p, i + 1, Len(p)))
    ELSE <<p>>

RECURSIVE join_slash(_)
\* '/'.join(comps)
join_slash(comps) ==
    IF comps = <<>> THEN <<>>
    ELSE IF Len(comps) = 1 THEN comps[1]
    ELSE comps[1] \o <<"/">> \o join_slash(Tail(comps))

RECURSIVE norm_comps(_, _, _)
\* the component loop of posixpath.normpath
norm_comps(comps, new_comps, initial_slashes) ==
    IF comps = <<>> THEN new_comps
    ELSE LET comp == Head(comps)
             rest == Tail(comps)
         IN  IF comp = <<>> \/ comp = <<".">>
             THEN norm_comps(rest, new_comps, initial_slashes)
             ELSE IF \/ comp # <<".", ".">>
                     \/ (initial_slashes = 0 /\ new_comps = <<>>)
                     \/ (new_comps # <<>>
                            /\ new_comps[Len(new_comps)] = <<".", ".">>)
             THEN norm_comps(rest, Append(new_comps, comp), initial_slashes)
             ELSE IF new_comps # <<>>
             THEN norm_comps(rest, SubSeq(new_comps, 1, Len(new_comps) - 1),
                             initial_slashes)
             ELSE norm_comps(rest, new_comps, initial_slashes)

\* posixpath.normpath
normpath(path) ==
    IF path = <<>> THEN <<".">>
    ELSE LET initial_slashes ==
                 IF path[1] # "/" THEN 0
                 ELSE IF Len(path) >= 2 /\ path[2] = "/"
                         /\ ~(Len(path) >= 3 /\ path[3] = "/")
                 THEN 2 ELSE 1
             body == join_slash(norm_comps(split_slash(path), <<>>,
                                           initial_slashes))
             res == [i \in 1..initial_slashes |-> "/"] \o body
         IN  IF res = <<>> THEN <<".">> ELSE res

\* os.path.abspath: a relative path is joined to the working directory, then
\* normalised
abspath(wd, path) ==
    IF path # <<>> /\ path[1] = "/" THEN normpath(path)
    ELSE IF wd # <<>> /\ wd[Len(wd)] = "/" THEN normpath(wd \o path)
    ELSE normpath(wd \o <<"/">> \o path)

\* what the filesystem holds at a path: "file", "dir" or "none"
kind(f, wd, path) ==
    LET a == abspath(wd, path)
    IN  IF path # <<>> /\ a \in DOMAIN f THEN f[a] ELSE "none"

\* os.path.isfile / os.path.isdir
isfile(f, wd, path) == kind(f, wd, path) = "file"
isdir(f, wd, path) == kind(f, wd, path) = "dir"

\* the orders in which a for-loop may visit a set (set iteration order is
\* not specified)
Orders(S) ==
    {o \in [1..Cardinality(S) -> S] :
        \A i \in 1..Cardinality(S), j \in 1..Cardinality(S) :
            i # j => o[i] # o[j]}

----------------------------------------------------------------------------
(* Scratch location and lifecycle commands *)

\* the order in which get_scratch_path looks at the three settings
ScratchOrder == <<"localscratch", "scratch", "userscratch">>

RECURSIVE scratch_loop(_, _)
\* the for-loop of get_scratch_path over the settings left to look at: the
\* first one that is truthy is returned; falling off the loop returns None
scratch_loop(a, order) ==
    IF order = <<>> THEN PyNone
    ELSE IF Truthy(a[Head(order)]) THEN a[Head(order)]
    ELSE scratch_loop(a, Tail(order))

\* mutant of get_scratch_path: priority scratch > localscratch > userscratch
get_scratch_path_scratch_first(a) ==
    scratch_loop(a, <<"scratch", "localscratch", "userscratch">>)

\* get_scratch_path(args)
get_scratch_path(a) == scratch_loop(a, ScratchOrder)

\* the condition of get_scratching_commands: any of the three settings set
any_scratch(a) ==
    Truthy(a.scratch) \/ Truthy(a.userscratch) \/ Truthy(a.localscratch)

\* get_scratching_commands(args): appends to args['scratching']
get_scratching_commands(a) ==
    IF any_scratch(a)
    THEN LET scratch_path ==
                 Str(get_scratch_path(a)) \o <<"/", "${">> \o a.job_id \o <<"}">>
         IN  [a EXCEPT !.scratching = @ \o
                <<  <<"\n# Define and create a scratch directory">>,
                    <<"SCRATCH_DIR=\"">> \o scratch_path \o <<"\"">>,
                    <<"mkdir -p ${SCRATCH_DIR}">>,
                    <<"cd ${SCRATCH_DIR}">>,
                    <<"echo Working directory is ${SCRATCH_DIR}">>  >>]
    ELSE [a EXCEPT !.scratching = @ \o
                <<  <<"\n# Define scratch directory as working dir">>,
                    IF a.torque THEN <<"SCRATCH_DIR=$PBS_O_WORKDIR">>
                    ELSE <<"SCRATCH_DIR=$SLURM_SUBMIT_DIR">>  >>]

\* mutant of get_clearing_commands: the scratch area is removed before the
\* job leaves it
get_clearing_commands_rm_first(a) ==
    IF a.clear_scratch
    THEN [a EXCEPT !.clear = @ \o
            <<  <<"\n# Move away and clear the scratch area">>,
                <<"rm -rf ${SCRATCH_DIR}">>,
                IF a.torque THEN <<"cd ${PBS_O_WORKDIR}">>
                ELSE <<"cd ${SLURM_SUBMIT_DIR}">>  >>]
    ELSE a

\* get_clearing_commands(args)
get_clearing_commands(a) ==
    IF a.clear_scratch
    THEN IF a.torque
         THEN [a EXCEPT !.clear = @ \o
                <<  <<"\n# Move away and clear the scratch area">>,
                    <<"cd ${PBS_O_WORKDIR}">>,
                    <<"rm -rf ${SCRATCH_DIR}">>  >>]
         ELSE [a EXCEPT !.clear = @ \o
                <<  <<"\n# Move away and clear the scratch area">>,
                    <<"cd ${SLURM_SUBMIT_DIR}">>,
                    <<"rm -rf ${SCRATCH_DIR}">>  >>]
    ELSE a

\* mutant of go_to_work: the three lines are appended to the list held
go_to_work_append(a) ==
    LET work_dir == IF a.torque THEN "PBS_O_WORKDIR" ELSE "SLURM_SUBMIT_DIR"
    IN  [a EXCEPT !.keys = @ \cup {"move_to"},
                  !.move_to = @ \o
            <<  <<"# Move to the working directory and say it">>,
                <<"cd $", work_dir>>,
                <<"echo Working directory is $", work_dir>>  >>]

\* go_to_work(args): args['move_to'] is assigned a new list
go_to_work(a) ==
    LET work_dir == IF a.torque THEN "PBS_O_WORKDIR" ELSE "SLURM_SUBMIT_DIR"
    IN  [a EXCEPT !.keys = @ \cup {"move_to"},
                  !.move_to =
            <<  <<"# Move to the working directory and say it">>,
                <<"cd $", work_dir>>,
                <<"echo Working directory is $", work_dir>>  >>]

----------------------------------------------------------------------------
(* Path classification *)

RECURSIVE get_in_out_drop_missing(_, _, _)
\* mutant of get_in_out: a path that does not exist is skipped
get_in_out_drop_missing(f, wd, paths) ==
    IF paths = {} THEN [files |-> {}, folders |-> {}, out |-> {}]
    ELSE LET path == CHOOSE x \in paths : TRUE
             io == get_in_out_drop_missing(f, wd, paths \ {path})
         IN  IF isfile(f, wd, path) THEN [io EXCEPT !.files = @ \cup {path}]
             ELSE IF isdir(f, wd, path)
             THEN [io EXCEPT !.folders = @ \cup {path}]
             ELSE io

RECURSIVE get_in_out(_, _, _)
\* get_in_out(paths): file, else directory, else pending output
get_in_out(f, wd, paths) ==
    IF paths = {} THEN [files |-> {}, folders |-> {}, out |-> {}]
    ELSE LET path == CHOOSE x \in paths : TRUE
             io == get_in_out(f, wd, paths \ {path})
         IN  IF isfile(f, wd, path) THEN [io EXCEPT !.files = @ \cup {path}]
             ELSE IF isdir(f, wd, path)
             THEN [io EXCEPT !.folders = @ \cup {path}]
             ELSE [io EXCEPT !.out = @ \cup {path}]

----------------------------------------------------------------------------
(* Command synthesis *)

\* the value of a Python local: Val({F(x) : x \in {e}}) is F(e) with e
\* evaluated once, as an assignment `x = e` followed by uses of x
Val(S) == CHOOSE x \in S : TRUE

RECURSIVE include_loop(_, _, _, _)
\* the for-loop of get_include_commands over the include tuple; st holds the
\* locals included, m_to, m_from and args['mkdir']
include_loop(f, wd, incl, st) ==
    IF incl = <<>> THEN st
    ELSE IF ~isdir(f, wd, Head(incl))
    THEN include_loop(f, wd, Tail(incl), st)
    ELSE Val({ include_loop(f, wd, Tail(incl), st2) :
            st2 \in { Val({
                [included |-> st.included \cup {folder},
                 mkdir |-> st.mkdir \cup
                    {<<"mkdir -p ">> \o dirname(<<"${SCRATCH_DIR}">> \o folder),
                     <<"mkdir -p ">> \o folder},
                 m_to |-> Append(st.m_to,
                    <<"rsync -aqru ">> \o folder \o <<"/", " ">>
                        \o <<"${SCRATCH_DIR}">> \o folder),
                 m_from |-> Append(st.m_from,
                    <<"rsync -aqru ">> \o <<"${SCRATCH_DIR}">> \o folder
                        \o <<"/", " ">> \o folder)] :
                folder \in {abspath(wd, Head(incl))} }) } })

\* get_include_commands(args): the updated args and the returned set
get_include_commands(a, f, wd) ==
    IF Truthy(a.include)
    THEN Val({
            [args |-> [a EXCEPT
                    !.mkdir = st.mkdir,
                    !.move_to =
                        IF st.m_to # <<>>
                        THEN @ \o << <<"\n# Include command (move to scratch)">> >>
                               \o st.m_to
                        ELSE @,
                    !.move_from =
                        IF st.m_from # <<>>
                        THEN @ \o << <<"\n# Include command (move from scratch)">> >>
                               \o st.m_from
                        ELSE @],
              included |-> st.included] :
            st \in { include_loop(f, wd, a.include.q,
                        [included |-> {}, mkdir |-> a.mkdir,
                         m_to |-> <<>>, m_from |-> <<>>]) } })
    ELSE [args |-> a, included |-> {}]

RECURSIVE join_quote_comma_reversed(_)
\* mutant of join_quote_comma: the patterns are joined last to first
join_quote_comma_reversed(q) ==
    IF q = <<>> THEN <<>>
    ELSE IF Len(q) = 1 THEN q[1]
    ELSE join_quote_comma_reversed(Tail(q)) \o <<"','">> \o q[1]

RECURSIVE join_quote_comma(_)
\* "','".join(exclude)
join_quote_comma(q) ==
    IF q = <<>> THEN <<>>
    ELSE IF Len(q) = 1 THEN q[1]
    ELSE q[1] \o <<"','">> \o join_quote_comma(Tail(q))

\* get_exclude(args)
get_exclude(a) ==
    IF Truthy(a.exclude)
    THEN <<"/", " --exclude={'">> \o join_quote_comma(a.exclude.q) \o <<"'}">>
    ELSE <<>>

\* mutant of move_to: the directory created is the destination itself
move_to_mkdir_destination(a, path, is_folder, exclude) ==
    LET source == IF is_folder THEN path \o <<"/">> ELSE path
        destination == <<"${SCRATCH_DIR}">> \o path
    IN  [args |-> [a EXCEPT !.mkdir = @ \cup
                        {<<"mkdir -p ">> \o destination}],
         move |-> << <<"rsync -aqru ">> \o source \o <<" ">> \o destination
                        \o exclude >>]

\* move_to(args, path, is_folder, exclude): the updated args and the
\* returned list
move_to(a, path, is_folder, exclude) ==
    LET source == IF is_folder THEN path \o <<"/">> ELSE path
        destination == <<"${SCRATCH_DIR}">> \o path
    IN  [args |-> [a EXCEPT !.mkdir = @ \cup
                        {<<"mkdir -p ">> \o dirname(destination)}],
         move |-> << <<"rsync -aqru ">> \o source \o <<" ">> \o destination
                        \o exclude >>]

RECURSIVE in_loop(_, _, _, _)
\* one for-loop of get_in_commands over the paths in the order visited
in_loop(a, order, is_folder, exclude) ==
    IF order = <<>> THEN a
    ELSE Val({ in_loop([m.args EXCEPT !.move_to = @ \o m.move],
                       Tail(order), is_folder, exclude) :
                m \in {move_to(a, Head(order), is_folder, exclude)} })

\* mutant of get_in_commands: the exclude suffix is handed on for the
\* files too
get_in_commands_exclude_files(a, of, ofl, exclude) ==
    Val({ in_loop(a1, ofl, FALSE, exclude) :
            a1 \in {in_loop(a, of, TRUE, exclude)} })

\* get_in_commands(args, min_paths, exclude); of, ofl: the orders in which
\* the two sets are visited
get_in_commands(a, of, ofl, exclude) ==
    Val({ in_loop(a1, ofl, FALSE, <<>>) :
            a1 \in {in_loop(a, of, TRUE, exclude)} })

RECURSIVE out_folders_loop(_, _)
\* first for-loop of get_out_commands
out_folders_loop(a, order) ==
    IF order = <<>> THEN a
    ELSE out_folders_loop(
            [a EXCEPT !.mkdir = @ \cup {<<"mkdir -p ">> \o Head(order)},
                      !.move_from = Append(@,
                        <<"rsync -auqr ">> \o <<"${SCRATCH_DIR}">>
                            \o Head(order) \o <<"/", " ">> \o Head(order)
                            \o <<"; fi">>)],
            Tail(order))

RECURSIVE out_pending_loop_unguarded_file(_, _)
\* mutant of out_pending_loop: the file is synced back without the test
out_pending_loop_unguarded_file(a, order) ==
    IF order = <<>> THEN a
    ELSE LET path == Head(order)
             source == <<"${SCRATCH_DIR}">> \o path
         IN  out_pending_loop_unguarded_file(
                [a EXCEPT !.move_from = @ \o
                    <<  <<"if [ -d ">> \o source \o <<" ]; then mkdir -p ">>
                            \o path \o <<"; rsync -auqr ">> \o source
                            \o <<"/", " ">> \o path \o <<"; fi">>,
                        <<"rsync -auqr ">> \o source \o <<" ">> \o path  >>],
                Tail(order))

RECURSIVE out_pending_loop(_, _)
\* second for-loop of get_out_commands
out_pending_loop(a, order) ==
    IF order = <<>> THEN a
    ELSE LET path == Head(order)
             source == <<"${SCRATCH_DIR}">> \o path
         IN  out_pending_loop(
                [a EXCEPT !.move_from = @ \o
                    <<  <<"if [ -d ">> \o source \o <<" ]; then mkdir -p ">>
                            \o path \o <<"; rsync -auqr ">> \o source
                            \o <<"/", " ">> \o path \o <<"; fi">>,
                        <<"if [ -f ">> \o source \o <<" ]; then rsync -auqr ">>
                            \o source \o <<" ">> \o path \o <<"; fi">>  >>],
                Tail(order))

\* get_out_commands(args, min_paths, in_out); of, oo: the orders in which
\* the minimal folders and the pending outputs are visited
get_out_commands(a, of, oo) ==
    Val({ out_pending_loop(a1, oo) : a1 \in {out_folders_loop(a, of)} })

\* get_relocating_commands(args): the updated args and the locals included,
\* in_out, min_paths
get_relocating_commands(a, f, wd, of, ofl, oo) ==
    Val({ Val({ Val({ Val({
        [args |-> get_out_commands(a1, of, oo), included |-> inc.included,
         in_out |-> io, min_paths |-> mp] :
        a1 \in {get_in_commands(inc.args, of, ofl, get_exclude(inc.args))} }) :
        mp \in {get_min_paths(io, inc.included)} }) :
        io \in {get_in_out(f, wd, inc.args.paths)} }) :
        inc \in {get_include_commands(a, f, wd)} })

\* the keys get_relocation creates
OutKeys == {"scratching", "mkdir", "move_to", "move_from", "clear"}

\* mutant of fresh: an output the dictionary already holds is kept
fresh_setdefault(a) ==
    [a EXCEPT !.keys = @ \cup OutKeys,
              !.scratching = IF "scratching" \in a.keys THEN @ ELSE <<>>,
              !.mkdir = IF "mkdir" \in a.keys THEN @ ELSE {},
              !.move_to = IF "move_to" \in a.keys THEN @ ELSE <<>>,
              !.move_from = IF "move_from" \in a.keys THEN @ ELSE <<>>,
              !.clear = IF "clear" \in a.keys THEN @ ELSE <<>>]

\* the first five statements of get_relocation: every output is a new,
\* empty container
fresh(a) ==
    [a EXCEPT !.keys = @ \cup OutKeys,
              !.scratching = <<>>, !.mkdir = {}, !.move_to = <<>>,
              !.move_from = <<>>, !.clear = <<>>]

\* the locals a call that classifies nothing leaves behind
NoInOut == [files |-> {}, folders |-> {}, out |-> {}]
NoMinPaths == [folders |-> {}, files |-> {}]

\* the minimal paths get_relocating_commands computes for args
min_paths_of(a, f, wd) ==
    Val({ Val({ get_min_paths(io, inc.included) :
        io \in {get_in_out(f, wd, a.paths)} }) :
        inc \in {get_include_commands(a, f, wd)} })

\* get_relocation(args)
get_relocation(a, f, wd, of, ofl, oo) ==
    Val({
        IF a0.move
        THEN Val({ Val({ [r EXCEPT !.args = get_clearing_commands(r.args)] :
                r \in {get_relocating_commands(a1, f, wd, of, ofl, oo)} }) :
                a1 \in {get_scratching_commands(a0)} })
        ELSE [args |-> go_to_work(a0), included |-> {}, in_out |-> NoInOut,
              min_paths |-> NoMinPaths] :
        a0 \in {fresh(a)} })

----------------------------------------------------------------------------
(* The args dictionary *)

\* keys of the dictionary built by the unit tests' setUp
SetUpKeys ==
    {"job_id", "include", "exclude", "localscratch", "userscratch", "scratch",
     "torque", "move_to", "move_from", "clear"}

\* every key the relocation functions read or write
AllKeys == SetUpKeys \cup OutKeys \cup {"move", "clear_scratch", "paths"}

\* the dictionary of the unit tests' setUp; a key outside `keys` is absent
\* and its field is not read
SetUpArgs ==
    [keys |-> SetUpKeys,
     job_id |-> <<"X">>,
     include |-> PyNone,
     exclude |-> PyNone,
     localscratch |-> PyNone,
     userscratch |-> PyBool(FALSE),
     scratch |-> PyBool(FALSE),
     torque |-> FALSE,
     move |-> FALSE,
     clear_scratch |-> FALSE,
     paths |-> {},
     scratching |-> <<>>,
     mkdir |-> {},
     move_to |-> <<>>,
     move_from |-> <<>>,
     clear |-> <<>>,
     job_fp |-> <<"job.slm">>,
     directives |-> <<>>,
     preamble |-> <<>>,
     commands |-> <<>>,
     in |-> <<>>,
     mv |-> <<>>,
     out |-> <<>>,
     nnodes |-> 1,
     cpus |-> 1,
     sinfo |-> FALSE,
     allocate |-> FALSE,
     sinfo_pd |-> PyNone]

\* a filesystem holding nothing
NoFs == [x \in {} |-> "none"]

----------------------------------------------------------------------------
(* Specification of the reducer: get_min_folders, get_min_files and        *)
(* get_min_paths applied to bounded sets of paths                          *)

InitReduce ==
    /\ args = SetUpArgs
    /\ fs = NoFs
    /\ cwd = <<"/">>
    /\ \/ \* directories and include overrides
          /\ \E D \in AtMost3 \cup {TestFolders} :
                in_out = [files |-> {}, folders |-> D, out |-> {}]
          /\ included \in AtMost1
          /\ min_arg = {}
       \/ \* files against a given set of minimal folders
          /\ \E F \in AtMost2 \cup {TestFiles} :
                in_out = [files |-> F, folders |-> {}, out |-> {}]
          /\ included = {}
          /\ min_arg \in AtMost2 \cup {TestMinFolders}
       \/ \* files and directories together
          /\ \E D \in AtMost2, F \in AtMost1 :
                in_out = [files |-> F, folders |-> D, out |-> {}]
          /\ included \in AtMost1
          /\ min_arg = {}
    /\ min_paths = NoMinPaths
    /\ ret = PyNone
    /\ last = "none"
    /\ calls = 0
    /\ script = <<>>
    /\ effects = <<>>

\* a call of get_min_folders(in_out['folders'], included)
CallGetMinFolders ==
    /\ ret' = PySet(get_min_folders(in_out.folders, included))
    /\ last' = "get_min_folders"
    /\ UNCHANGED <<args, fs, cwd, in_out, included, min_arg, min_paths, calls, script, effects>>

\* a call of get_min_files(in_out['files'], min_folders)
CallGetMinFiles ==
    /\ ret' = PySet(get_min_files(in_out.files, min_arg))
    /\ last' = "get_min_files"
    /\ UNCHANGED <<args, fs, cwd, in_out, included, min_arg, min_paths, calls, script, effects>>

\* a call of get_min_paths(in_out, included)
CallGetMinPaths ==
    /\ min_paths' = get_min_paths(in_out, included)
    /\ ret' = PyDict(min_paths')
    /\ last' = IF last = "feed" THEN "get_min_paths again" ELSE "get_min_paths"
    /\ UNCHANGED <<args, fs, cwd, in_out, included, min_arg, calls, script, effects>>

\* the caller hands the result of get_min_paths back as the next input
FeedBack ==
    /\ last = "get_min_paths"
    /\ in_out' = [in_out EXCEPT !.folders = min_paths.folders,
                                !.files = min_paths.files]
    /\ last' = "feed"
    /\ UNCHANGED <<args, fs, cwd, included, min_arg, min_paths, ret, calls, script, effects>>

NextReduce ==
    \/ CallGetMinFolders
    \/ CallGetMinFiles
    \/ CallGetMinPaths
    \/ FeedBack

SpecReduce == InitReduce /\ [][NextReduce]_vars

----------------------------------------------------------------------------
(* Specification of the single functions, called as the unit tests call    *)
(* them: on the setUp dictionary, or on a dictionary holding every key     *)

\* the paths the planner is given in the relocation specifications
RelocPaths == {<<"/", "a">>, <<"/", "a", "/", "b">>, <<"/", "b">>}

\* the filesystems over RelocPaths: what exists below /a exists in a directory
FsStates ==
    {f \in [RelocPaths -> {"file", "dir", "none"}] :
        f[<<"/", "a", "/", "b">>] # "none" => f[<<"/", "a">>] = "dir"}

\* values of the three scratch settings: unset (None, False, '') or a path
LocalScratchValues == {PyNone, PyStr(<<"/", "localscratch:10GB">>)}
ScratchValues == {PyBool(FALSE), PyStr(<<>>), PyStr(<<"/", "scratch">>)}
UserScratchValues == {PyBool(FALSE), PyStr(<<"/", "userscratch">>)}

\* what the clear list holds when the caller hands it over: nothing, or a
\* line put there before
HeldLines == {<<>>, << <<"echo held">> >>}

\* values of the exclude option: unset, empty, one or two patterns
ExcludeOptions ==
    {PyNone, PyTuple(<<>>), PyTuple(<< <<"/", "x">> >>),
     PyTuple(<< <<"/", "x">>, <<"/", "y">> >>),
     PyTuple(<< <<"/", "y">>, <<"/", "x">> >>)}

\* values of the include option: unset, empty, absolute and relative entries
IncludeOptions ==
    {PyNone, PyTuple(<<>>), PyTuple(<< <<"/", "a">> >>),
     PyTuple(<< <<".", "/", "b">>, <<"/", "a">> >>)}

\* the working directories the functions are called from
WorkingDirs == {<<"/">>, <<"/", "a">>}

InitFuncs ==
    /\ \/ \* the scratch settings and flags vary, no path is given
          /\ \E ks \in {SetUpKeys, AllKeys}, l \in LocalScratchValues,
                sc \in ScratchValues, u \in UserScratchValues,
                tq \in BOOLEAN, cl \in BOOLEAN, held \in HeldLines :
                args = [SetUpArgs EXCEPT !.keys = ks, !.localscratch = l,
                            !.scratch = sc, !.userscratch = u, !.torque = tq,
                            !.clear_scratch = cl, !.clear = held]
          /\ fs = NoFs
          /\ cwd = <<"/">>
       \/ \* the paths and the filesystem vary
          /\ \E P \in SUBSET RelocPaths :
                args = [SetUpArgs EXCEPT !.keys = AllKeys, !.paths = P]
          /\ fs \in FsStates
          /\ cwd = <<"/">>
       \/ \* the include and exclude options, the filesystem and the working
          \* directory vary
          /\ \E ks \in {SetUpKeys, AllKeys}, inc \in IncludeOptions,
                exc \in ExcludeOptions, held \in HeldLines :
                args = [SetUpArgs EXCEPT !.keys = ks, !.include = inc,
                            !.exclude = exc, !.move_to = held]
          /\ fs \in FsStates
          /\ cwd \in WorkingDirs
    /\ in_out = NoInOut
    /\ included = {}
    /\ min_arg = {}
    /\ min_paths = NoMinPaths
    /\ ret = PyNone
    /\ last = "none"
    /\ calls = 0
    /\ script = <<>>
    /\ effects = <<>>

\* the first key of the sequence ks that args does not hold, "" if none
RECURSIVE missing_key(_, _)
missing_key(a, ks) ==
    IF ks = <<>> THEN ""
    ELSE IF Head(ks) \notin a.keys THEN Head(ks)
    ELSE missing_key(a, Tail(ks))

\* a call of get_scratch_path(args)
CallGetScratchPath ==
    /\ calls < MaxCalls
    /\ calls' = calls + 1
    /\ last' = "get_scratch_path"
    /\ ret' = IF missing_key(args, ScratchOrder) # ""
              THEN PyRaise("KeyError")
              ELSE get_scratch_path(args)
    /\ UNCHANGED <<args, fs, cwd, in_out, included, min_arg, min_paths, script, effects>>

\* a call of get_scratching_commands(args)
CallGetScratchingCommands ==
    /\ calls < MaxCalls
    /\ calls' = calls + 1
    /\ last' = "get_scratching_commands"
    /\ IF missing_key(args, <<"scratch", "userscratch", "localscratch",
                              "job_id", "scratching", "torque">>) # ""
       THEN ret' = PyRaise("KeyError") /\ args' = args
       ELSE ret' = PyNone /\ args' = get_scratching_commands(args)
    /\ UNCHANGED <<fs, cwd, in_out, included, min_arg, min_paths, script, effects>>

\* a call of get_clearing_commands(args)
CallGetClearingCommands ==
    /\ calls < MaxCalls
    /\ calls' = calls + 1
    /\ last' = "get_clearing_commands"
    /\ IF missing_key(args, <<"clear_scratch", "clear", "torque">>) # ""
       THEN ret' = PyRaise("KeyError") /\ args' = args
       ELSE ret' = PyNone /\ args' = get_clearing_commands(args)
    /\ UNCHANGED <<fs, cwd, in_out, included, min_arg, min_paths, script, effects>>

\* a call of go_to_work(args)
CallGoToWork ==
    /\ calls < MaxCalls
    /\ calls' = calls + 1
    /\ last' = IF last = "go_to_work, torque switched" THEN "go_to_work again"
              ELSE "go_to_work"
    /\ IF missing_key(args, <<"torque">>) # ""
       THEN ret' = PyRaise("KeyError") /\ args' = args
       ELSE ret' = PyNone /\ args' = go_to_work(args)
    /\ UNCHANGED <<fs, cwd, in_out, included, min_arg, min_paths, script, effects>>

\* a call of get_in_out(paths) on the paths of args
CallGetInOut ==
    /\ calls < MaxCalls
    /\ calls' = calls + 1
    /\ last' = "get_in_out"
    /\ in_out' = get_in_out(fs, cwd, args.paths)
    /\ ret' = PyDict(in_out')
    /\ UNCHANGED <<args, fs, cwd, included, min_arg, min_paths, script, effects>>

\* a call of get_exclude(args)
CallGetExclude ==
    /\ calls < MaxCalls
    /\ calls' = calls + 1
    /\ last' = "get_exclude"
    /\ ret' = IF missing_key(args, <<"exclude">>) # ""
              THEN PyRaise("KeyError")
              ELSE PyStr(get_exclude(args))
    /\ UNCHANGED <<args, fs, cwd, in_out, included, min_arg, min_paths, script, effects>>

\* a call of get_include_commands(args): args['mkdir'] is read when the
\* first include entry that is a directory is met, args['move_to'] and
\* args['move_from'] after the loop
CallGetIncludeCommands ==
    /\ calls < MaxCalls
    /\ calls' = calls + 1
    /\ last' = "get_include_commands"
    /\ \E r \in {get_include_commands(args, fs, cwd)} :
        IF \/ "include" \notin args.keys
           \/ r.included # {}
                /\ missing_key(args, <<"mkdir", "move_to", "move_from">>) # ""
        THEN ret' = PyRaise("KeyError") /\ args' = args
                /\ included' = included
        ELSE ret' = PySet(r.included) /\ args' = r.args
                /\ included' = r.included
    /\ UNCHANGED <<fs, cwd, in_out, min_arg, min_paths, script, effects>>

\* the caller sets args['torque'] = True between two calls
SwitchTorque ==
    /\ "torque" \in args.keys /\ ~args.torque
    /\ args' = [args EXCEPT !.torque = TRUE]
    /\ last' = IF last = "go_to_work" THEN "go_to_work, torque switched"
              ELSE "torque switched"
    /\ UNCHANGED <<fs, cwd, in_out, included, min_arg, min_paths, ret, calls, script, effects>>

NextFuncs ==
    \/ CallGetScratchPath
    \/ CallGetScratchingCommands
    \/ CallGetClearingCommands
    \/ CallGoToWork
    \/ CallGetInOut
    \/ CallGetExclude
    \/ CallGetIncludeCommands
    \/ SwitchTorque

SpecFuncs == InitFuncs /\ [][NextFuncs]_vars

----------------------------------------------------------------------------
(* Specification of the planner: get_relocation on the dictionary the      *)
(* command line builds                                                     *)

\* the include and exclude options: unset, or given
IncludeValues == {PyNone, PyTuple(<< <<"/", "a">> >>)}
ExcludeValues == {PyNone, PyTuple(<< <<"/", "x">>, <<"/", "y">> >>)}

\* include overrides below, beside and above the paths given
IncludeOverrides ==
    {PyTuple(<< <<"/", "a", "/", "b">> >>), PyTuple(<< <<"/", "b">> >>),
     PyTuple(<< <<"/", "a">>, <<"/", "b">> >>)}

\* a line held by an output before get_relocation is called
HeldLine == <<"echo held">>

Init ==
    /\ \/ \* the scratch settings and the flags vary; the dictionary holds
          \* no output yet
          \E l \in LocalScratchValues,
             sc \in {PyBool(FALSE), PyStr(<<"/", "scratch">>)},
             u \in UserScratchValues, tq \in BOOLEAN, cl \in BOOLEAN,
             mv \in BOOLEAN, inc \in IncludeValues, exc \in ExcludeValues,
             P \in SUBSET RelocPaths :
            args = [SetUpArgs EXCEPT !.keys = AllKeys \ OutKeys,
                        !.localscratch = l, !.scratch = sc, !.userscratch = u,
                        !.torque = tq, !.clear_scratch = cl, !.move = mv,
                        !.include = inc, !.exclude = exc, !.paths = P]
       \/ \* the include overrides vary; the dictionary may hold outputs
          \* of an earlier use
          \E inc \in IncludeOverrides, exc \in ExcludeValues,
             mv \in BOOLEAN, P \in SUBSET RelocPaths :
            \/ args = [SetUpArgs EXCEPT !.keys = AllKeys \ OutKeys,
                        !.scratch = PyStr(<<"/", "scratch">>),
                        !.clear_scratch = TRUE, !.move = mv,
                        !.include = inc, !.exclude = exc, !.paths = P]
            \/ args = [SetUpArgs EXCEPT !.keys = AllKeys,
                        !.scratch = PyStr(<<"/", "scratch">>),
                        !.clear_scratch = TRUE, !.move = mv,
                        !.include = inc, !.exclude = exc, !.paths = P,
                        !.scratching = <<HeldLine>>, !.mkdir = {HeldLine},
                        !.move_to = <<HeldLine>>, !.move_from = <<HeldLine>>,
                        !.clear = <<HeldLine>>]
    /\ fs \in FsStates
    /\ cwd = <<"/">>
    /\ in_out = NoInOut
    /\ included = {}
    /\ min_arg = {}
    /\ min_paths = NoMinPaths
    /\ ret = PyNone
    /\ last = "none"
    /\ calls = 0
    /\ script = <<>>
    /\ effects = <<>>

\* a call of get_relocation(args); the three sets get_relocating_commands
\* loops over are visited in any order, the same in both loops over the
\* minimal folders
CallGetRelocation ==
    /\ last' = IF last = "get_relocation" THEN "get_relocation again"
              ELSE "get_relocation"
    /\ ret' = PyNone
    /\ \E mp \in {min_paths_of(fresh(args), fs, cwd)},
          io \in {get_in_out(fs, cwd, args.paths)} :
        \E of \in Orders(mp.folders), ofl \in Orders(mp.files),
           oo \in Orders(io.out) :
            \E r \in {get_relocation(args, fs, cwd, of, ofl, oo)} :
                /\ args' = r.args
                /\ included' = r.included
                /\ in_out' = r.in_out
                /\ min_paths' = r.min_paths
    /\ UNCHANGED <<fs, cwd, min_arg, calls, script, effects>>

Next == CallGetRelocation

Spec == Init /\ [][Next]_vars

----------------------------------------------------------------------------
(* Specification of the script assembly: get_relocation followed by        *)
(* write_out on the same dictionary                                        *)

\* the sections write_out goes through, in its order
WriteParts == <<"directives", "preamble", "in", "commands", "mv", "out">>

RECURSIVE write_parts(_, _, _)
\* the for-loop of write_out over the sections left to write: the lines of
\* the section, its END marker and an empty line; a section the dictionary
\* does not hold raises KeyError and leaves the file as written so far
write_parts(a, parts, written) ==
    IF parts = <<>>
    THEN [file |-> Append(written, <<"echo \"Done!\"">>), ret |-> PyNone]
    ELSE IF Head(parts) \notin a.keys
    THEN [file |-> written, ret |-> PyRaise("KeyError")]
    ELSE write_parts(a, Tail(parts),
            written \o a[Head(parts)]
                \o << <<"# ------ ", Head(parts), " END ------">>, <<>> >>)

\* write_out(args): the file is opened for writing, hence emptied, once
\* args['job_fp'] has been read
write_out(a, old) ==
    IF "job_fp" \notin a.keys
    THEN [file |-> old, ret |-> PyRaise("KeyError")]
    ELSE write_parts(a, WriteParts, <<>>)

\* the keys of the sections written besides those the planner fills
SectionKeys == {"job_fp", "directives", "preamble", "commands"}

\* the keys of the sections the docstring of get_relocation names
LegacyKeys == {"in", "mv", "out"}

InitWrite ==
    /\ \E mv \in BOOLEAN, cl \in BOOLEAN, P \in SUBSET RelocPaths,
          legacy \in SUBSET LegacyKeys :
            args = [SetUpArgs EXCEPT
                        !.keys = (AllKeys \ OutKeys) \cup SectionKeys
                                    \cup legacy,
                        !.scratch = PyStr(<<"/", "scratch">>),
                        !.clear_scratch = cl, !.move = mv, !.paths = P,
                        !.directives = << <<"#!/bin/bash">> >>,
                        !.preamble = << <<"echo start">> >>,
                        !.commands = << <<"echo job">> >>]
    /\ fs \in FsStates
    /\ cwd = <<"/">>
    /\ in_out = NoInOut
    /\ included = {}
    /\ min_arg = {}
    /\ min_paths = NoMinPaths
    /\ ret = PyNone
    /\ last = "none"
    /\ calls = 0
    /\ script = <<>>
    /\ effects = <<>>

\* a call of write_out(args)
CallWriteOut ==
    /\ last' = "write_out"
    /\ \E w \in {write_out(args, script)} :
            /\ script' = w.file
            /\ ret' = w.ret
    /\ UNCHANGED <<args, fs, cwd, in_out, included, min_arg, min_paths, calls, effects>>

NextWrite ==
    \/ CallGetRelocation
    \/ CallWriteOut

SpecWrite == InitWrite /\ [][NextWrite]_vars

----------------------------------------------------------------------------
(* Specification of the node directive: get_nodes_ppn on the numbers of    *)
(* nodes and processors the command line gives                             *)

\* the decimal digits
DigitChars == <<"0", "1", "2", "3", "4", "5", "6", "7", "8", "9">>

RECURSIVE Digits(_)
\* '%s' % n for a non-negative int: its decimal digits, most significant
\* first
Digits(n) ==
    IF n < 10 THEN <<DigitChars[n + 1]>>
    ELSE Digits(n \div 10) \o <<DigitChars[(n % 10) + 1]>>

\* get_nodes_ppn(args); nnodes and cpus are ints, which int() returns as
\* they are
get_nodes_ppn(a) ==
    LET nnodes == a.nnodes
        ncpus == a.cpus
    IN  IF a.torque
        THEN <<"#PBS -l nodes=">> \o Digits(nnodes) \o <<":ppn=">>
                \o Digits(ncpus)
        ELSE IF nnodes > 1 /\ ncpus > 1
        THEN (<<"#SBATCH --nodes=">> \o Digits(nnodes))
                \o (<<"#SBATCH --ntasks-per-node=">> \o Digits(ncpus))
        ELSE IF nnodes > 1
        THEN <<"#SBATCH --nodes=">> \o Digits(nnodes)
        ELSE IF ncpus > 1
        THEN <<"#SBATCH --ntasks=">> \o Digits(ncpus)
        ELSE <<"#SBATCH --ntasks=1">>

InitNodes ==
    /\ \E n \in 1..MaxNodes, c \in 1..MaxCpus, tq \in BOOLEAN :
            args = [SetUpArgs EXCEPT !.keys = {"nnodes", "cpus", "torque"},
                        !.nnodes = n, !.cpus = c, !.torque = tq]
    /\ fs = NoFs
    /\ cwd = <<"/">>
    /\ in_out = NoInOut
    /\ included = {}
    /\ min_arg = {}
    /\ min_paths = NoMinPaths
    /\ ret = PyNone
    /\ last = "none"
    /\ calls = 0
    /\ script = <<>>
    /\ effects = <<>>

\* a call of get_nodes_ppn(args)
CallGetNodesPpn ==
    /\ last' = "get_nodes_ppn"
    /\ ret' = PyStr(get_nodes_ppn(args))
    /\ UNCHANGED <<args, fs, cwd, in_out, included, min_arg, min_paths, calls,
                   script, effects>>

NextNodes == CallGetNodesPpn

SpecNodes == InitNodes /\ [][NextNodes]_vars

----------------------------------------------------------------------------
(* Specification of the node snapshot: get_sinfo_pd on the flags of the    *)
(* command line and on what the filesystem holds                           *)

\* the path get_sinfo_pd assigns to fp
SnapFp ==
    <<"/", "Users", "/", "franck", "/", "programs", "/", "Xhpc", "/", "Xhpc",
      "/", "test", "/", "snap.txt">>

\* the folder passed as sinfo_dir
SinfoDir == <<"/", "home", "/", ".sinfo">>

\* the dates snapshots in the folder may carry, as str(date) writes them
SnapshotDates == {"2022-03-01", "2022-03-02"}

\* pd.DataFrame values, told apart by where the rows come from: "empty" is
\* pd.DataFrame(), "sinfo" the table collect_sinfo_pd builds, "read_csv" the
\* table read from fp
DataFrame(from) == [t |-> "DataFrame", from |-> from]

\* what a call does outside the dictionary
Effect(op, path) == [op |-> op, path |-> path]

\* os.makedirs(path)
makedirs(f, path) ==
    [p \in DOMAIN f \cup {path} |-> IF p = path THEN "dir" ELSE f[p]]

\* os.remove(path)
remove(f, path) == [p \in DOMAIN f \ {path} |-> f[p]]

\* glob.glob('%s/*.tsv' % sinfo_dir): the entries of the folder whose name
\* ends with .tsv
glob_tsv(f, sinfo_dir) ==
    {p \in DOMAIN f :
        /\ Len(p) = Len(sinfo_dir) + 3
        /\ SubSeq(p, 1, Len(sinfo_dir) + 1) = sinfo_dir \o <<"/">>
        /\ p[Len(p) - 1] # "/"
        /\ p[Len(p)] = ".tsv"}

RECURSIVE remove_previous_fps(_, _)
\* remove_previous_fps(sinfo_dir): the for-loop over the globbed paths left
\* to visit; gives the filesystem and the removals made
remove_previous_fps(f, order) ==
    IF order = <<>> THEN [fs |-> f, effects |-> <<>>]
    ELSE LET rest == remove_previous_fps(remove(f, Head(order)), Tail(order))
         IN  [fs |-> rest.fs,
              effects |-> <<Effect("remove", Head(order))>> \o rest.effects]

\* run_sinfo_subprocess(): raises when the subprocess wrote to stderr
run_sinfo_subprocess(stderr) ==
    IF stderr THEN PyRaise("FileNotFoundError") ELSE [t |-> "bytes"]

\* collect_sinfo_pd(): the table built from the output of the subprocess
collect_sinfo_pd(stderr) ==
    LET sinfo_stdout == run_sinfo_subprocess(stderr)
    IN  IF sinfo_stdout.t = "raise" THEN sinfo_stdout ELSE DataFrame("sinfo")

\* args['sinfo_pd'] = sinfo_pd
set_sinfo_pd(a, sinfo_pd) ==
    [a EXCEPT !.keys = @ \cup {"sinfo_pd"}, !.sinfo_pd = sinfo_pd]

\* the branch of get_sinfo_pd that collects a new snapshot
\*   stderr : whether the sinfo subprocess writes to stderr
\*   order  : the order in which glob gives the snapshots of the folder
collect_and_write(a, f, wd, sinfo_dir, fp, stderr, order) ==
    LET made == ~isdir(f, wd, sinfo_dir)
        f1 == IF made THEN makedirs(f, sinfo_dir) ELSE f
        e1 == IF made THEN <<Effect("makedirs", sinfo_dir)>> ELSE <<>>
        sinfo_pd == collect_sinfo_pd(stderr)
        e2 == e1 \o <<Effect("sinfo", <<>>)>>
        removed == remove_previous_fps(f1, order)
        e3 == e2 \o removed.effects
    IN  IF sinfo_pd.t = "raise"
        THEN [args |-> a, fs |-> f1, effects |-> e2, ret |-> sinfo_pd]
        ELSE IF ~isdir(removed.fs, wd, dirname(fp))
        \* to_csv cannot open a file in a folder that does not exist
        THEN [args |-> a, fs |-> removed.fs, effects |-> e3,
              ret |-> PyRaise("OSError")]
        ELSE [args |-> set_sinfo_pd(a, sinfo_pd),
              fs |-> [p \in DOMAIN removed.fs \cup {fp} |->
                        IF p = fp THEN "file" ELSE removed.fs[p]],
              effects |-> e3 \o <<Effect("to_csv", fp)>>,
              ret |-> PyNone]

\* get_sinfo_pd(args, sinfo_dir) on the filesystem f
get_sinfo_pd(a, f, wd, sinfo_dir, stderr, order) ==
    IF a.torque
    THEN [args |-> a, fs |-> f, effects |-> <<>>, ret |-> PyRaise("IOError")]
    ELSE IF a.sinfo \/ a.allocate
    THEN LET fp == SnapFp
         IN  IF a.sinfo \/ ~isfile(f, wd, fp)
             THEN collect_and_write(a, f, wd, sinfo_dir, fp, stderr, order)
             ELSE [args |-> set_sinfo_pd(a, DataFrame("read_csv")),
                   fs |-> f,
                   effects |-> <<Effect("read_csv", fp)>>,
                   ret |-> PyNone]
    ELSE [args |-> set_sinfo_pd(a, DataFrame("empty")), fs |-> f,
          effects |-> <<>>, ret |-> PyNone]

\* the snapshot of the folder that carries the date
SnapshotOf(date) == SinfoDir \o <<"/", date, ".tsv">>

\* a filesystem that holds the folders and the files
FsOf(dirs, files) ==
    [p \in dirs \cup files |-> IF p \in dirs THEN "dir" ELSE "file"]

\* what the filesystem may hold before a call: the folder or not, with
\* dated snapshots in it or not, and the folder of fp or not, with fp in it
\* or not
SinfoFsStates ==
    {FsOf(x.D \cup x.T, x.S \cup x.F) :
        x \in {y \in [D : {{}, {SinfoDir}},
                      S : SUBSET {SnapshotOf(d) : d \in SnapshotDates},
                      T : {{}, {dirname(SnapFp)}},
                      F : {{}, {SnapFp}}] :
                    /\ y.S # {} => y.D # {}
                    /\ y.F # {} => y.T # {}}}

InitSinfo ==
    /\ \E tq \in BOOLEAN, si \in BOOLEAN, al \in BOOLEAN :
            args = [SetUpArgs EXCEPT !.keys = {"torque", "sinfo", "allocate"},
                        !.torque = tq, !.sinfo = si, !.allocate = al]
    /\ fs \in SinfoFsStates
    /\ cwd = <<"/">>
    /\ in_out = NoInOut
    /\ included = {}
    /\ min_arg = {}
    /\ min_paths = NoMinPaths
    /\ ret = PyNone
    /\ last = "none"
    /\ calls = 0
    /\ script = <<>>
    /\ effects = <<>>

\* a call of get_sinfo_pd(args, sinfo_dir)
CallGetSinfoPd ==
    /\ calls < MaxCalls
    /\ calls' = calls + 1
    /\ last' = "get_sinfo_pd"
    /\ \E stderr \in BOOLEAN, order \in Orders(glob_tsv(fs, SinfoDir)) :
         \E r \in {get_sinfo_pd(args, fs, cwd, SinfoDir, stderr, order)} :
            /\ args' = r.args
            /\ fs' = r.fs
            /\ effects' = r.effects
            /\ ret' = r.ret
    /\ UNCHANGED <<cwd, in_out, included, min_arg, min_paths, script>>

NextSinfo == CallGetSinfoPd

SpecSinfo == InitSinfo /\ [][NextSinfo]_vars

----------------------------------------------------------------------------
(* Properties of the reducer, checked under SpecReduce *)

\* the folders handed to the last call and what it returned
D_in == in_out.folders
F_in == in_out.files

\* C1 as stated: with no include overrides, no directory returned by
\* get_min_folders is a substring of another directory it returned
C1_NoSubstringAmongSurvivors ==
    (last = "get_min_folders" /\ included = {}) =>
        \A a \in ret.v, b \in ret.v : a # b => ~IsSubstr(a, b)

\* C1 amended: with no include overrides, no directory returned by
\* get_min_folders is a string prefix of another directory it returned
C1_NoPrefixAmongSurvivors ==
    (last = "get_min_folders" /\ included = {}) =>
        \A a \in ret.v, b \in ret.v : a # b => ~IsPrefix(a, b)

\* get_min_folders dropped a directory and kept at least two
C1_Witness ==
    /\ last = "get_min_folders" /\ included = {}
    /\ Cardinality(ret.v) >= 2
    /\ ret.v # D_in

\* C2: every directory given to get_min_folders is returned, or contains a
\* returned directory as a substring, or contains an include override as a
\* substring; with no include overrides only the first two remain
C2_DroppedIsCovered ==
    last = "get_min_folders" =>
        \A d \in D_in :
            \/ d \in ret.v
            \/ \E m \in ret.v : IsSubstr(m, d)
            \/ \E i \in included : IsSubstr(i, d)

\* one directory was dropped for a surviving directory and another one for
\* an include override only
C2_Witness ==
    /\ last = "get_min_folders"
    /\ \E d \in D_in \ ret.v : \E m \in ret.v : IsSubstr(m, d)
    /\ \E d \in D_in \ ret.v :
            /\ \E i \in included : IsSubstr(i, d)
            /\ \A m \in ret.v : ~IsSubstr(m, d)

\* C3: get_min_folders applied to its own result (same include overrides)
\* returns that result, and get_min_paths applied to the folders and files
\* of its own result returns the same folders and files
C3_FixedPoint ==
    /\ [](last = "get_min_folders" =>
            get_min_folders(ret.v, included) = ret.v)
    /\ [][(last = "feed" /\ last' = "get_min_paths again") =>
            min_paths' = min_paths]_vars

\* get_min_paths was applied to its own result, which holds a folder and a
\* file, under a non-empty set of include overrides
C3_Witness ==
    /\ last = "get_min_paths again"
    /\ min_paths.folders = D_in /\ min_paths.files = F_in
    /\ min_paths.folders # {} /\ min_paths.files # {}
    /\ included # {}

\* C4: adding any directory p to the include overrides returns a subset of
\* what get_min_folders returned without it, and neither p nor any given
\* directory containing p as a substring is returned
C4_IncludeMonotone ==
    last = "get_min_folders" =>
        \A p \in Paths \cup D_in :
            LET more == get_min_folders(D_in, included \cup {p})
            IN  /\ more \subseteq ret.v
                /\ p \notin more
                /\ \A d \in D_in : IsSubstr(p, d) => d \notin more

\* some directory p that get_min_folders returned is itself a candidate
\* override, and adding it strictly shrinks the result
C4_Witness ==
    /\ last = "get_min_folders"
    /\ included # {}
    /\ \E p \in ret.v :
            get_min_folders(D_in, included \cup {p}) # ret.v

\* the expected result of test_get_min_files
TestMinFiles ==
    { <<"/","a","/","b","/","c",".","t","x","t">>,
      <<"/","1",".","t","x","t">> }

\* C5: get_min_files returns exactly the files whose dirname contains no
\* given minimal folder as a substring; all the files when no folder is
\* given; and {/a/b/c.txt, /1.txt} on the files and folders of the unit test
C5_MinFilesExact ==
    last = "get_min_files" =>
        /\ ret.v = {f \in F_in :
                        \A d \in min_arg : ~IsSubstr(d, dirname(f))}
        /\ (min_arg = {} => ret.v = F_in)
        /\ (F_in = TestFiles /\ min_arg = TestMinFolders
                => ret.v = TestMinFiles)

\* get_min_files dropped one file and kept another whose own path, but not
\* its dirname, contains a minimal folder
C5_Witness ==
    /\ last = "get_min_files"
    /\ ret.v # F_in
    /\ \E f \in ret.v : \E d \in min_arg : IsSubstr(d, f)

\* C6: a directory that has another given directory as a proper string
\* prefix is never returned by get_min_folders, whatever the include
\* overrides; the directories of the unit test reduce to {/a/b/c, /1}
C6_PrefixedIsDropped ==
    last = "get_min_folders" =>
        /\ \A a \in D_in, b \in D_in :
                (a # b /\ IsPrefix(a, b)) => b \notin ret.v
        /\ (D_in = TestFolders /\ included = {}
                => ret.v = TestMinFolders)

\* get_min_folders was applied to the directories of the unit test
C6_Witness ==
    /\ last = "get_min_folders"
    /\ D_in = TestFolders /\ included = {}
    /\ ret.v = TestMinFolders

----------------------------------------------------------------------------
(* Properties of the single functions, checked under SpecFuncs *)

\* C7: get_in_out returns three pairwise disjoint sets whose union is the
\* paths given; a path is in files iff it is a regular file, in folders iff
\* it is not a file and is a directory, in out otherwise; it never raises
C7_InOutPartition ==
    last = "get_in_out" =>
        /\ ret.t = "dict"
        /\ ret.d.files \cap ret.d.folders = {}
        /\ ret.d.files \cap ret.d.out = {}
        /\ ret.d.folders \cap ret.d.out = {}
        /\ ret.d.files \cup ret.d.folders \cup ret.d.out = args.paths
        /\ \A p \in args.paths :
            /\ p \in ret.d.files <=> isfile(fs, cwd, p)
            /\ p \in ret.d.folders <=>
                    (~isfile(fs, cwd, p) /\ isdir(fs, cwd, p))
            /\ p \in ret.d.out <=>
                    (~isfile(fs, cwd, p) /\ ~isdir(fs, cwd, p))

\* get_in_out classified a file, a directory and a path that does not exist
C7_Witness ==
    /\ last = "get_in_out"
    /\ ret.d.files # {} /\ ret.d.folders # {} /\ ret.d.out # {}

\* C8: get_scratch_path returns the value of localscratch if it is set, else
\* that of scratch if it is set, else that of userscratch if it is set, else
\* None
C8_ScratchPriority ==
    (last = "get_scratch_path" /\ ret.t # "raise") =>
        ret = IF Truthy(args.localscratch) THEN args.localscratch
              ELSE IF Truthy(args.scratch) THEN args.scratch
              ELSE IF Truthy(args.userscratch) THEN args.userscratch
              ELSE PyNone

\* get_scratch_path was called with all three settings set
C8_Witness ==
    /\ last = "get_scratch_path"
    /\ Truthy(args.localscratch) /\ Truthy(args.scratch)
    /\ Truthy(args.userscratch)
    /\ ret = args.localscratch

\* the submission-directory variable of the scheduler
SubmitDir == IF args.torque THEN "PBS_O_WORKDIR" ELSE "SLURM_SUBMIT_DIR"

\* the three lines get_clearing_commands is to append
ClearLines ==
    <<  <<"\n# Move away and clear the scratch area">>,
        IF args.torque THEN <<"cd ${PBS_O_WORKDIR}">>
        ELSE <<"cd ${SLURM_SUBMIT_DIR}">>,
        <<"rm -rf ${SCRATCH_DIR}">>  >>

\* C10: a call of get_clearing_commands that does not raise appends to clear
\* the comment line, the cd to the submission directory of the scheduler and
\* the removal of ${SCRATCH_DIR}, in this order, when clear_scratch is true,
\* and leaves clear as it was when clear_scratch is false
C10_ClearingCommands ==
    [][(last' = "get_clearing_commands" /\ calls' = calls + 1
            /\ ret'.t # "raise") =>
        IF args.clear_scratch THEN args'.clear = args.clear \o ClearLines
        ELSE args'.clear = args.clear]_vars

\* get_clearing_commands has appended its three lines, for Torque, to a list
\* that held a line
C10_Witness ==
    /\ last = "get_clearing_commands" /\ ret.t # "raise"
    /\ args.clear_scratch /\ args.torque
    /\ Len(args.clear) = 4
    /\ args.clear[1] = <<"echo held">>

RECURSIVE Flatten(_)
\* the concatenation of a sequence of sequences
Flatten(qq) ==
    IF qq = <<>> THEN <<>> ELSE Head(qq) \o Flatten(Tail(qq))

\* the patterns e1, ..., en written 'e1','e2',...,'en' without the outer
\* quotes: each pattern verbatim, "','" between two neighbours
QuotedList(q) ==
    Flatten([i \in 1..Len(q) |->
                (IF i = 1 THEN <<>> ELSE <<"','">>) \o q[i]])

\* C11: get_exclude returns the empty string when exclude is unset or
\* empty; for a non-empty tuple it returns "/ --exclude={'e1',...,'en'}",
\* the patterns verbatim and in the given order; ('/x','/y') gives
\* "/ --exclude={'/x','/y'}"
C11_ExcludeSuffix ==
    (last = "get_exclude" /\ ret.t # "raise") =>
        /\ ret.t = "str"
        /\ (~Truthy(args.exclude) => ret.s = <<>>)
        /\ (Truthy(args.exclude) =>
                ret.s = <<"/", " --exclude={'">> \o QuotedList(args.exclude.q)
                            \o <<"'}">>)
        /\ (args.exclude = PyTuple(<< <<"/", "x">>, <<"/", "y">> >>) =>
                ret.s = <<"/", " --exclude={'", "/", "x", "','", "/", "y",
                          "'}">>)

\* get_exclude was given the two patterns in the other order, ('/y','/x')
C11_Witness ==
    /\ last = "get_exclude"
    /\ args.exclude = PyTuple(<< <<"/", "y">>, <<"/", "x">> >>)
    /\ ret.s = <<"/", " --exclude={'", "/", "y", "','", "/", "x", "'}">>

\* the lines get_scratching_commands is to append: five when a scratch
\* setting is set, two otherwise
ScratchingLines ==
    IF any_scratch(args)
    THEN << <<"\n# Define and create a scratch directory">>,
            <<"SCRATCH_DIR=\"">> \o Str(get_scratch_path(args))
                \o <<"/", "${">> \o args.job_id \o <<"}">> \o <<"\"">>,
            <<"mkdir -p ${SCRATCH_DIR}">>,
            <<"cd ${SCRATCH_DIR}">>,
            <<"echo Working directory is ${SCRATCH_DIR}">> >>
    ELSE << <<"\n# Define scratch directory as working dir">>,
            <<"SCRATCH_DIR=$", SubmitDir>> >>

\* C12 as stated: a call of get_scratching_commands on a dictionary that
\* holds move_to appends its five, or two, lines to move_to
C12_ScratchingIntoMoveTo ==
    [][(last' = "get_scratching_commands" /\ calls' = calls + 1
            /\ "move_to" \in args.keys) =>
        /\ ret'.t # "raise"
        /\ args'.move_to = args.move_to \o ScratchingLines]_vars

\* the lines holding an include directory p that the claim expects in
\* move_to and move_from
IncludeToLines(p) ==
    << <<"mkdir -p ">> \o <<"${SCRATCH_DIR}">> \o dirname(p),
       <<"rsync -aqru ">> \o p \o <<"/", " ">> \o <<"${SCRATCH_DIR}">> \o p >>
IncludeFromLines(p) ==
    << <<"mkdir -p ">> \o p,
       <<"rsync -aqru ">> \o <<"${SCRATCH_DIR}">> \o p \o <<"/", " ">> \o p >>

\* the include entries that exist as directories, as absolute paths, in the
\* order of the tuple
ExistingIncludes ==
    IF Truthy(args.include)
    THEN SelectSeq([i \in 1..Len(args.include.q) |->
                        IF isdir(fs, cwd, args.include.q[i])
                        THEN abspath(cwd, args.include.q[i]) ELSE <<>>],
                   LAMBDA p : p # <<>>)
    ELSE <<>>

\* C13 as stated: a call of get_include_commands on a dictionary that
\* holds include, move_to and move_from returns the absolute paths of the
\* include entries that are directories; when there is none move_to and
\* move_from are unchanged; otherwise move_to receives the header and, for
\* each directory, its mkdir and rsync lines, and move_from likewise
C13_IncludeCommands ==
    [][(last' = "get_include_commands" /\ calls' = calls + 1
            /\ {"include", "move_to", "move_from"} \subseteq args.keys) =>
        /\ ret' = PySet({ExistingIncludes[i] : i \in 1..Len(ExistingIncludes)})
        /\ IF ExistingIncludes = <<>>
           THEN args'.move_to = args.move_to
                    /\ args'.move_from = args.move_from
           ELSE /\ args'.move_to = args.move_to
                    \o << <<"\n# Include command (move to scratch)">> >>
                    \o Flatten([i \in 1..Len(ExistingIncludes) |->
                                    IncludeToLines(ExistingIncludes[i])])
                /\ args'.move_from = args.move_from
                    \o << <<"\n# Include command (move from scratch)">> >>
                    \o Flatten([i \in 1..Len(ExistingIncludes) |->
                                    IncludeFromLines(ExistingIncludes[i])])]_vars

\* the three lines go_to_work leaves in move_to
WorkLines ==
    <<  <<"# Move to the working directory and say it">>,
        <<"cd $", SubmitDir>>,
        <<"echo Working directory is $", SubmitDir>>  >>

----------------------------------------------------------------------------
(* Properties of the planner, checked under Spec *)

\* C9 as stated: after get_relocation with none of scratch, userscratch and
\* localscratch set, whatever the move flag and the paths, move_to holds the
\* comment line, the cd and the echo only, move_from and clear are empty and
\* no mkdir line exists
C9_NoScratchNoMovement ==
    (last = "get_relocation" /\ ~any_scratch(args)) =>
        /\ args.move_to = WorkLines
        /\ args.move_from = <<>>
        /\ args.clear = <<>>
        /\ args.mkdir = {}

\* get_relocation has been called, and it took the branch that moves data
Called == last \in {"get_relocation", "get_relocation again"}
Moved == Called /\ args.move

\* a is a suffix of b (str.endswith)
IsSuffix(a, b) ==
    Len(a) <= Len(b) /\ SubSeq(b, Len(b) - Len(a) + 1, Len(b)) = a

\* the scratch-side counterpart of a path
OnScratch(p) == <<"${SCRATCH_DIR}">> \o p

\* the line is a sync command into scratch whose source is p (as a file, or
\* as the contents of a directory)
SourceIs(line, p) ==
    \/ IsPrefix(<<"rsync -aqru ">> \o p \o <<" ">>, line)
    \/ IsPrefix(<<"rsync -aqru ">> \o p \o <<"/", " ">>, line)

\* the line is a command whose last operand, the destination, is p
DestIs(line, p) ==
    \/ IsSuffix(<<" ">> \o p, line)
    \/ IsSuffix(<<" ">> \o p \o <<"; fi">>, line)

\* the two guarded lines that bring a pending output back
GuardedDirLine(p) ==
    <<"if [ -d ">> \o OnScratch(p) \o <<" ]; then mkdir -p ">> \o p
        \o <<"; rsync -auqr ">> \o OnScratch(p) \o <<"/", " ">> \o p
        \o <<"; fi">>
GuardedFileLine(p) ==
    <<"if [ -f ">> \o OnScratch(p) \o <<" ]; then rsync -auqr ">>
        \o OnScratch(p) \o <<" ">> \o p \o <<"; fi">>

\* C15: after get_relocation has moved data, for every pending output p
\* move_from holds the line that tests whether ${SCRATCH_DIR}p is a
\* directory, creates p and syncs its contents back, followed by the line
\* that tests whether it is a regular file and syncs it back; these two are
\* the only lines of move_from whose destination is p, and no line of
\* move_to has p as its source
C15_PendingGuarded ==
    Moved =>
        \A p \in in_out.out :
            /\ \E k \in 1..(Len(args.move_from) - 1) :
                    /\ args.move_from[k] = GuardedDirLine(p)
                    /\ args.move_from[k + 1] = GuardedFileLine(p)
            /\ Cardinality({k \in DOMAIN args.move_from :
                                DestIs(args.move_from[k], p)}) = 2
            /\ \A k \in DOMAIN args.move_to : ~SourceIs(args.move_to[k], p)

\* two pending outputs were planned beside a minimal directory
C15_Witness ==
    /\ Moved
    /\ Cardinality(in_out.out) = 2
    /\ min_paths.folders # {}
    /\ Len(args.move_from) >= 5

\* the exclude suffix that the exclude option stands for
ExcludeSuffix ==
    IF Truthy(args.exclude)
    THEN <<"/", " --exclude={'">> \o QuotedList(args.exclude.q) \o <<"'}">>
    ELSE <<>>

\* C16: after get_relocation has moved data, move_to holds for every
\* minimal directory d exactly one sync command whose source is d, namely
\* 'rsync -aqru d/ ${SCRATCH_DIR}d' followed by the exclude suffix, and for
\* every minimal file f exactly one whose source is f, namely
\* 'rsync -aqru f ${SCRATCH_DIR}f' without any suffix
C16_OneSyncPerMinimalPath ==
    Moved =>
        /\ \A d \in min_paths.folders :
            \E k \in DOMAIN args.move_to :
                /\ args.move_to[k] = <<"rsync -aqru ">> \o d \o <<"/", " ">>
                                        \o OnScratch(d) \o ExcludeSuffix
                /\ \A j \in DOMAIN args.move_to :
                        SourceIs(args.move_to[j], d) => j = k
        /\ \A f \in min_paths.files :
            \E k \in DOMAIN args.move_to :
                /\ args.move_to[k] = <<"rsync -aqru ">> \o f \o <<" ">>
                                        \o OnScratch(f)
                /\ \A j \in DOMAIN args.move_to :
                        SourceIs(args.move_to[j], f) => j = k

\* a minimal directory and a minimal file were planned under an exclude
\* option
C16_Witness ==
    /\ Moved
    /\ Truthy(args.exclude)
    /\ min_paths.folders # {} /\ min_paths.files # {}

\* the parent of an absolute path of at least one component: the path
\* without its last separator and name
Parent(p) == SubSeq(p, 1, Len(p) - 2)

\* C17 as stated: after get_relocation has moved data, mkdir holds for
\* every minimal directory d the creation of its destination
\* ${SCRATCH_DIR}d, and for every minimal file f the creation of the parent
\* of its destination
C17_MkdirDestination ==
    Moved =>
        /\ \A d \in min_paths.folders :
                <<"mkdir -p ">> \o OnScratch(d) \in args.mkdir
        /\ \A f \in min_paths.files :
                <<"mkdir -p ">> \o OnScratch(Parent(f)) \in args.mkdir

\* C17 amended: after get_relocation has moved data, mkdir holds for every
\* minimal path p, directory or file, the creation of the parent of its
\* destination, dirname(${SCRATCH_DIR}p)
C17_MkdirParent ==
    Moved =>
        \A p \in min_paths.folders \cup min_paths.files :
            <<"mkdir -p ">> \o OnScratch(Parent(p)) \in args.mkdir

\* a minimal directory two levels down and a minimal file were planned
C17_Witness ==
    /\ Moved
    /\ \E d \in min_paths.folders : Len(d) = 4
    /\ min_paths.files # {}
    /\ <<"mkdir -p ", "${SCRATCH_DIR}", "/", "a">> \in args.mkdir

\* the lines a list holds
Lines(q) == {q[k] : k \in DOMAIN q}

\* C18: a call of get_relocation leaves in scratching, mkdir, move_to,
\* move_from and clear no line they held before the call unless the call
\* itself produced it; a call that follows another on the same dictionary
\* and filesystem leaves the same lines, each as many times, as the call
\* before (their order within one loop follows the iteration order of the
\* sets)
C18_FreshOutputs ==
    [][(last' \in {"get_relocation", "get_relocation again"}) =>
        /\ \A o \in {"scratching", "move_to", "move_from", "clear"} :
                HeldLine \notin Lines(args'[o])
        /\ HeldLine \notin args'.mkdir
        /\ (last \in {"get_relocation", "get_relocation again"} =>
                /\ args'.scratching = args.scratching
                /\ args'.clear = args.clear
                /\ args'.mkdir = args.mkdir
                /\ Lines(args'.move_to) = Lines(args.move_to)
                /\ Len(args'.move_to) = Len(args.move_to)
                /\ Lines(args'.move_from) = Lines(args.move_from)
                /\ Len(args'.move_from) = Len(args.move_from))]_vars

\* get_relocation was called a second time on a dictionary whose outputs it
\* had filled
C18_Witness ==
    /\ last = "get_relocation again"
    /\ args.move
    /\ Len(args.scratching) = 5
    /\ Len(args.move_to) >= 2 /\ Len(args.move_from) >= 3
    /\ args.mkdir # {}
    /\ Len(args.clear) = 3

C21_RemovalOnlyOnScratch ==
    (Called /\ <<"rm -rf ${SCRATCH_DIR}">> \in Lines(args.clear)) =>
        /\ any_scratch(args)
        /\ <<"SCRATCH_DIR=$SLURM_SUBMIT_DIR">> \notin Lines(args.scratching)
        /\ <<"SCRATCH_DIR=$PBS_O_WORKDIR">> \notin Lines(args.scratching)

\* the line opens a conditional; the line closes one
OpensIf(line) == line # <<>> /\ line[1] \in {"if [ -d ", "if [ -f "}
ClosesFi(line) == line # <<>> /\ line[Len(line)] = "; fi"

\* C22 as stated: after get_relocation has moved data, for every minimal
\* directory d mkdir holds 'mkdir -p d' and move_from holds the
\* unconditional command 'rsync -auqr ${SCRATCH_DIR}d/ d'; a line of
\* move_from that closes with 'fi' opens with 'if ... then'
C22_ReturnBalanced ==
    Moved =>
        /\ \A d \in min_paths.folders :
            /\ <<"mkdir -p ">> \o d \in args.mkdir
            /\ <<"rsync -auqr ">> \o OnScratch(d) \o <<"/", " ">> \o d
                    \in Lines(args.move_from)
        /\ \A k \in DOMAIN args.move_from :
                ClosesFi(args.move_from[k]) => OpensIf(args.move_from[k])

----------------------------------------------------------------------------
(* Properties of the script assembly, checked under SpecWrite *)

\* C19 as stated: once get_relocation has filled the outputs, write_out
\* does not raise and the job file holds every line of move_to, move_from,
\* clear and mkdir
C19_RelocationWritten ==
    (last = "write_out" /\ OutKeys \subseteq args.keys) =>
        /\ ret.t # "raise"
        /\ Lines(args.move_to) \cup Lines(args.move_from)
                \cup Lines(args.clear) \cup args.mkdir
            \subseteq Lines(script)

----------------------------------------------------------------------------
(* Properties of the node directive, checked under SpecNodes *)

\* the options a Slurm directive may open with
SbatchOptions ==
    {"#SBATCH --nodes=", "#SBATCH --ntasks-per-node=", "#SBATCH --ntasks="}

\* the text requests the option with the value v: the option is followed
\* by the digits of v and by no further digit
Requests(text, opt, v) ==
    \E k \in DOMAIN text :
        /\ text[k] = opt
        /\ SubSeq(text, k + 1, k + Len(Digits(v))) = Digits(v)
        /\ \/ k + Len(Digits(v)) = Len(text)
           \/ \A d \in DOMAIN DigitChars :
                    text[k + Len(Digits(v)) + 1] # DigitChars[d]

\* C25 as stated: for nnodes >= 1 and cpus >= 1 get_nodes_ppn returns,
\* under Torque, the line '#PBS -l nodes=<nnodes>:ppn=<cpus>', and under
\* Slurm a text that requests --nodes=<nnodes> iff nnodes > 1,
\* --ntasks-per-node=<cpus> iff nnodes > 1 and cpus > 1, --ntasks=<cpus>
\* iff nnodes = 1 and cpus > 1, --ntasks=1 iff both are 1, and in which
\* every #SBATCH directive starts a line
C25_NodesDirective ==
    last = "get_nodes_ppn" =>
        LET n == args.nnodes
            c == args.cpus
            text == ret.s
        IN  IF args.torque
            THEN text = <<"#PBS -l nodes=">> \o Digits(n) \o <<":ppn=">>
                            \o Digits(c)
            ELSE /\ Requests(text, "#SBATCH --nodes=", n) <=> n > 1
                 /\ Requests(text, "#SBATCH --ntasks-per-node=", c)
                        <=> (n > 1 /\ c > 1)
                 /\ Requests(text, "#SBATCH --ntasks=", c)
                        <=> (n = 1 /\ c > 1)
                 /\ text = <<"#SBATCH --ntasks=1">> <=> (n = 1 /\ c = 1)
                 /\ \A k \in 2..Len(text) :
                        text[k] \in SbatchOptions => text[k - 1] = "\n"

----------------------------------------------------------------------------
(* Properties of the node snapshot, checked under SpecSinfo *)

\* the date of the day of the call
Today == "2022-03-02"

\* the operations of the effects, in order
Ops(e) == [i \in DOMAIN e |-> e[i].op]

\* the operations other than the creation of the folder
SnapshotOps(e) == SelectSeq(Ops(e), LAMBDA op : op # "makedirs")

\* the sinfo subprocess is run, previous snapshots are removed and a new
\* snapshot is written, in that order
RunRemoveWrite(e) ==
    /\ SnapshotOps(e) # <<>>
    /\ Head(SnapshotOps(e)) = "sinfo"
    /\ SnapshotOps(e)[Len(SnapshotOps(e))] = "to_csv"
    /\ \A i \in 2..(Len(SnapshotOps(e)) - 1) : SnapshotOps(e)[i] = "remove"

\* C24 as stated: with torque true and neither sinfo nor allocate set,
\* get_sinfo_pd does not raise, touches no file and sets args['sinfo_pd']
\* to an empty table; the IOError is raised only when torque is true and
\* sinfo or allocate is set
C24_TorqueRaisesOnlyOnRequest ==
    last = "get_sinfo_pd" =>
        /\ (args.torque /\ ~args.sinfo /\ ~args.allocate) =>
                /\ ret.t # "raise"
                /\ effects = <<>>
                /\ "sinfo_pd" \in args.keys
                /\ args.sinfo_pd = DataFrame("empty")
        /\ ret = PyRaise("IOError") =>
                (args.torque /\ (args.sinfo \/ args.allocate))

\* C23 as stated: with torque false, a call of get_sinfo_pd runs the sinfo
\* subprocess, removes the previous snapshots and writes a new one, in that
\* order, iff (sinfo or allocate) is set and (sinfo is set or the folder
\* holds no snapshot for today); with allocate set, sinfo not set and the
\* snapshot for today in the folder, the snapshot is read and nothing is
\* run, removed or written; with neither flag set nothing is read, run or
\* written and sinfo_pd is an empty table; whenever the call does not fail
\* args['sinfo_pd'] is set
C23_SnapshotCaching ==
    [][(last' = "get_sinfo_pd" /\ ~args.torque) =>
        LET today == isfile(fs, cwd, SnapshotOf(Today))
            refresh == (args.sinfo \/ args.allocate)
                            /\ (args.sinfo \/ ~today)
        IN  /\ ret'.t # "raise" => (RunRemoveWrite(effects') <=> refresh)
            /\ ~refresh => \A i \in DOMAIN effects' :
                    effects'[i].op \notin {"sinfo", "remove", "to_csv"}
            /\ (args.allocate /\ ~args.sinfo /\ today) =>
                    Ops(effects') = <<"read_csv">>
            /\ (~args.sinfo /\ ~args.allocate) =>
                    /\ effects' = <<>>
                    /\ args'.sinfo_pd = DataFrame("empty")
            /\ ret'.t # "raise" =>
                    /\ "sinfo_pd" \in args'.keys
                    /\ args'.sinfo_pd.t = "DataFrame"]_vars

====
